---- MODULE Spec2Model ----
(***************************************************************************)
(* Model of the TraceForge execution core (runtime/execution.rs) and of    *)
(* the Notify primitive (sync/notify.rs), driven by the programs of        *)
(* tests/sync/notify.rs and by the end-to-end scenarios of the             *)
(* specification.                                                          *)
(*                                                                         *)
(* The driver (Execution::run / Execution::step) is a single thread.  One  *)
(* call of step() is modelled by StepChoose (phase A, under with), the     *)
(* operations the resumed continuation executes (NotifyOp, PollOp,         *)
(* SpawnOp, JoinOp, MaybeYieldOp, PanicOp, ReturnOp) and StepClassify      *)
(* (the match on the result of resume).                                    *)
(***************************************************************************)
EXTENDS Integers, Sequences, FiniteSets, TLC

VARIABLES
    scenario,        \* the closure given to Execution::run (fixed per run)
    tasks,           \* ExecutionState.tasks
    cont,            \* the continuation of each task (position in its closure)
    current_task,    \* ExecutionState.current_task
    next_task,       \* ExecutionState.next_task
    has_cleaned_up,  \* ExecutionState.has_cleaned_up
    dpc,             \* position of the driver in run()/step()
    ret,             \* result of the last resume()
    failure,         \* the failure raised by the driver, if any
    state,           \* Notify.state
    waiters,         \* Notify.waiters (Vec of oneshot senders)
    chans,           \* the oneshot channels created by poll_notified
    log,             \* history: the notify_one / poll_notified calls made
    advanced,        \* history: advance_to_next_task has been called
    installed,       \* EXECUTION_STATE.is_set(): inside the set region of run()
    borrowed,        \* the RefCell<ExecutionState> is mutably borrowed
    probes,          \* history: the calls of with / try_with and their outcomes
    cleanups,        \* history: the number of calls of cleanup()
    strategy,        \* the Strategy driving the run (fixed per run)
    sched            \* history: the calls of Must::next_task and of
                     \* advance_to_next_task, in order

vars == <<scenario, tasks, cont, current_task, next_task, has_cleaned_up,
          dpc, ret, failure, state, waiters, chans, log, advanced, installed,
          borrowed, probes, cleanups, strategy, sched>>

(***************************************************************************)
(* Bounds                                                                  *)
(***************************************************************************)
MaxWaiters == 2

(***************************************************************************)
(* ScheduledTask (execution.rs:183-202)                                    *)
(***************************************************************************)
NoTid == -1

ST_None == [tag |-> "None", tid |-> NoTid]

ST_Some(tid) == [tag |-> "Some", tid |-> tid]

ST_Stopped == [tag |-> "Stopped", tid |-> NoTid]

ST_Finished == [tag |-> "Finished", tid |-> NoTid]

(***************************************************************************)
(* The closures run by the tests.  An operation of a closure is a record;  *)
(* a closure is a sequence of operations.                                  *)
(***************************************************************************)
NoName == ""

\* a panic payload (Box<dyn Any + Send>): its type and, for strings, its text
Payload(ty, txt) == [type |-> ty, text |-> txt]

NoPayload == Payload("none", "")

OpNotify == [op |-> "notify", prog |-> "", name |-> NoName, h |-> 0, payload |-> NoPayload]

OpAwait == [op |-> "await", prog |-> "", name |-> NoName, h |-> 0, payload |-> NoPayload]

OpYield == [op |-> "yield", prog |-> "", name |-> NoName, h |-> 0, payload |-> NoPayload]

\* panic!("boom"): the payload of a literal message is a &'static str
OpPanic == [op |-> "panic", prog |-> "", name |-> NoName, h |-> 0,
            payload |-> Payload("&str", "boom")]

\* panic!("{}", msg): the payload of a formatted message is a String
OpPanicFmt == [op |-> "panic", prog |-> "", name |-> NoName, h |-> 0,
               payload |-> Payload("String", "boom")]

\* std::panic::panic_any(42): a payload that is no string
OpPanicAny == [op |-> "panic", prog |-> "", name |-> NoName, h |-> 0,
               payload |-> Payload("other", "")]

\* a primitive that takes the next position of the running task (next_pos)
OpPos == [op |-> "pos", prog |-> "", name |-> NoName, h |-> 0, payload |-> NoPayload]

\* the message of the expect() in ExecutionState::with
Diagnostic == "The TraceForge API should be used only inside a TraceForge test."

\* a primitive that calls with() inside a with() closure: the expect() panics
OpNestedWith == [op |-> "nested_with", prog |-> "", name |-> NoName, h |-> 0,
                 payload |-> Payload("String", Diagnostic)]

\* a primitive that calls try_with() inside a with() closure
OpNestedTry == [op |-> "nested_try", prog |-> "", name |-> NoName, h |-> 0,
                payload |-> NoPayload]

OpSpawn(p, nm) == [op |-> "spawn", prog |-> p, name |-> nm, h |-> 0, payload |-> NoPayload]

OpJoin(k) == [op |-> "join", prog |-> "", name |-> NoName, h |-> k, payload |-> NoPayload]

RECURSIVE Spawns(_)
Spawns(n) == IF n = 0 THEN <<>> ELSE Spawns(n - 1) \o <<OpSpawn("waiter", NoName)>>

RECURSIVE Notifies(_)
Notifies(n) == IF n = 0 THEN <<>> ELSE Notifies(n - 1) \o <<OpYield, OpNotify>>

RECURSIVE Joins(_)
Joins(n) == IF n = 0 THEN <<>> ELSE Joins(n - 1) \o <<OpJoin(n)>>

\* notify_test (n = 1) and multiple_waiters_test (n = 2): n waiters, n notify_one
WaitersProg(n) == Spawns(n) \o Notifies(n) \o <<OpYield>> \o Joins(n)

\* notify_before_wait_test
BeforeWaitProg == <<OpNotify, OpSpawn("waiter", NoName), OpJoin(1)>>

\* two_notifies_one_received
TwoNotifiesProg ==
    <<OpNotify, OpNotify, OpSpawn("waiter", NoName), OpJoin(1),
      OpSpawn("waiter", NoName), OpYield, OpNotify, OpJoin(2)>>

\* scenario 3 of the specification: the child awaits a Notify nobody signals
DeadlockProg == <<OpSpawn("waiter", "child"), OpSpawn("nop", NoName)>>

\* scenario 2 of the specification: spawn a child that does nothing, then yield
SpawnYieldProg == <<OpSpawn("nop", NoName), OpYield>>

\* scenario 6 of the specification: the root panics
PanicProg == <<OpSpawn("nop", NoName), OpPos, OpYield, OpPanic>>

\* the same with a formatted message, and with a payload that is no string
PanicFmtProg == <<OpPos, OpPanicFmt>>

PanicAnyProg == <<OpPanicAny>>

\* a closure that re-enters the scoped state: try_with, then with, while borrowed
ReentryProg == <<OpNestedTry, OpNestedWith>>

Scenarios ==
    {"waiters" \o ToString(n) : n \in 1..MaxWaiters}
        \cup {"before_wait", "two_notifies", "deadlock", "spawn_yield", "immediate", "panic",
              "panic_fmt", "panic_any", "reentry"}

Body(p) ==
    IF \E n \in 1..MaxWaiters : p = "waiters" \o ToString(n)
    THEN WaitersProg(CHOOSE n \in 1..MaxWaiters : p = "waiters" \o ToString(n))
    ELSE CASE p = "before_wait"  -> BeforeWaitProg
           [] p = "two_notifies" -> TwoNotifiesProg
           [] p = "deadlock"     -> DeadlockProg
           [] p = "spawn_yield"  -> SpawnYieldProg
           [] p = "panic"        -> PanicProg
           [] p = "panic_fmt"    -> PanicFmtProg
           [] p = "panic_any"    -> PanicAnyProg
           [] p = "reentry"      -> ReentryProg
           [] p = "waiter"       -> <<OpAwait>>
           [] OTHER              -> <<>>

(***************************************************************************)
(* Task (runtime/task.rs, not part of the sources at hand; modelled from   *)
(* the data model of the specification: id, name, runnable, finished,      *)
(* instructions).                                                          *)
(***************************************************************************)
from_closure(id, name) ==
    [id |-> id, name |-> name, runnable |-> TRUE, finished |-> FALSE, instructions |-> 0]

\* Task::finish: terminal, and a finished task is not runnable
finish(t) == [t EXCEPT !.finished = TRUE, !.runnable = FALSE]

\* a sync primitive blocks the task that awaits it
block(t) == [t EXCEPT !.runnable = FALSE]

\* a sync primitive unblocks a task that is blocked on it
unblock(t) == [t EXCEPT !.runnable = TRUE]

\* the continuation of a fresh task: at the start of closure p, no Notified
\* alive, no JoinHandle held, result not produced
NoChan == 0

new_continuation(p) ==
    [prog |-> p, pc |-> 1, receiver |-> NoChan, handles |-> <<>>, done |-> FALSE]

(***************************************************************************)
(* ExecutionState (execution.rs:204-445)                                   *)
(***************************************************************************)
\* index of the task with id tid in the registry (Vec index tid)
Ix(tid) == tid + 1

\* spawn_task_id with ids counted from one
spawn_task_id_from_one(tks) == Len(tks) + 1

\* spawn_thread: the id is the length of the registry, the task is pushed
spawn_task_id(tks) == Len(tks)

spawn_thread(tks, name) ==
    [tasks |-> Append(tks, from_closure(spawn_task_id(tks), name)),
     task_id |-> spawn_task_id(tks)]

\* is_schedulable that filters out only the blocked tasks
is_schedulable_not_blocked(t) == t.runnable \/ t.finished

\* the filter of schedule(): the tasks that are runnable
is_schedulable(t) == t.runnable

\* an entry of the runnable set that carries no instruction count
runnable_entry_no_count(t) == <<t.id, 0>>

\* the map of schedule(): a task paired with its instruction count
runnable_entry(t) == <<t.id, t.instructions>>

runnable_set(tks) ==
    {runnable_entry(tks[i]) : i \in {j \in 1..Len(tks) : is_schedulable(tks[j])}}

runnable_ids(tks) == {r[1] : r \in runnable_set(tks)}

\* Must::next_task: one of the runnable ids, or NoTid (None) to stop
NextTaskChoices(tks) == runnable_ids(tks) \cup {NoTid}

\* the mock Strategy of the end-to-end scenarios: the lowest runnable id
LowestChoice(tks) ==
    IF runnable_ids(tks) = {} THEN {NoTid}
    ELSE {CHOOSE t \in runnable_ids(tks) : \A u \in runnable_ids(tks) : t <= u}

\* the answers the Strategy of this run may give
StrategyChoices(tks) ==
    IF strategy = "lowest" THEN LowestChoice(tks) ELSE NextTaskChoices(tks)

\* schedule() calls Must::next_task: no choice is pending and a task is runnable
consulted(nt, tks) == nt = ST_None /\ runnable_set(tks) # {}

\* ScheduledTask::id(), the Option<TaskId> given to the Strategy
st_id(cur) == IF cur.tag = "Some" THEN cur.tid ELSE NoTid

\* the record of a call of Must::next_task
CallEvent(tks, cur, pick) ==
    [ev |-> "call", runnable |-> runnable_set(tks), last |-> st_id(cur),
     answer |-> pick, to |-> ST_None]

\* the record of a call of advance_to_next_task
AdvanceEvent(nt) ==
    [ev |-> "advance", runnable |-> {}, last |-> NoTid, answer |-> NoTid, to |-> nt]

\* schedule() that takes the answer None of the Strategy for the end of the run
schedule_none_finished(nt, tks, pick) ==
    IF nt # ST_None THEN nt
    ELSE IF runnable_set(tks) = {} THEN ST_Finished
    ELSE IF pick = NoTid THEN ST_Finished
    ELSE ST_Some(pick)

\* schedule() that leaves next_task alone when no task is runnable
schedule_no_finish(nt, tks, pick) ==
    IF nt # ST_None THEN nt
    ELSE IF runnable_set(tks) = {} THEN nt
    ELSE IF pick = NoTid THEN ST_Stopped
    ELSE ST_Some(pick)

\* schedule() without the early return on a pending choice
schedule_twice(nt, tks, pick) ==
    IF runnable_set(tks) = {} THEN ST_Finished
    ELSE IF pick = NoTid THEN ST_Stopped
    ELSE ST_Some(pick)

\* schedule(): the value of next_task it leaves, given the Strategy's answer
schedule(nt, tks, pick) ==
    IF nt # ST_None THEN nt
    ELSE IF runnable_set(tks) = {} THEN ST_Finished
    ELSE IF pick = NoTid THEN ST_Stopped
    ELSE ST_Some(pick)

\* schedule() followed or not by advance_to_next_task(): the events recorded
sched_events(nt, cur, tks, pick, adv) ==
    (IF consulted(nt, tks) THEN <<CallEvent(tks, cur, pick)>> ELSE <<>>)
        \o (IF adv THEN <<AdvanceEvent(schedule(nt, tks, pick))>> ELSE <<>>)

\* advance_to_next_task that takes next_task and does not store it
advance_to_next_task_dropped(cur, nt) == [current_task |-> cur, next_task |-> ST_None]

\* advance_to_next_task(): current_task := next_task.take()
advance_to_next_task(cur, nt) == [current_task |-> nt, next_task |-> ST_None]

\* the tasks listed by the deadlock message, in registry order
RECURSIVE blocked_tasks(_)
blocked_tasks(tks) ==
    IF tks = <<>> THEN <<>>
    ELSE LET t == Head(tks)
             rest == blocked_tasks(Tail(tks))
         IN  IF ~t.finished
             THEN <<[name |-> IF t.name = NoName THEN "<unknown>" ELSE t.name,
                     id |-> t.id]>> \o rest
             ELSE rest

\* any_unfinished with all() in place of any()
all_unfinished(tks) == \A i \in 1..Len(tks) : ~tks[i].finished

any_unfinished(tks) == \E i \in 1..Len(tks) : ~tks[i].finished

\* Event: the position (thread id, instruction count) of a task
NoPos == [tid |-> NoTid, icount |-> 0]

\* Must::to_thread_id: the stable thread id of a task
to_thread_id(tid) == tid

\* ExecutionState::curr_pos() of the task tid
curr_pos(tks, tid) == [tid |-> to_thread_id(tid), icount |-> tks[Ix(tid)].instructions]

\* ExecutionState::next_pos(): the instruction counter of the task advances
next_pos(t) == [t EXCEPT !.instructions = @ + 1]

\* persist_task_failure(name or message, position): the message it returns
persist_task_failure(what, pos) == [what |-> what, pos |-> pos]

NoMessage == persist_task_failure("", NoPos)

\* a failure raised by the driver: its kind, the blocked tasks of a deadlock,
\* the name and position recorded, the number of calls of
\* persist_task_failure, and the payload of the panic that leaves run():
\* the persisted message it carries, if any, and the original payload
Failure(kind, blocked, name, pos, persists, message, original) ==
    [kind |-> kind, blocked |-> blocked, name |-> name, pos |-> pos,
     persists |-> persists, message |-> message, original |-> original]

NoFailure == Failure("none", <<>>, NoName, NoPos, 0, NoMessage, NoPayload)

\* the NextStep computed by phase A of step() from current_task
\* next_step that takes Finished for the end of the run without the deadlock check
next_step_no_deadlock_check(cur, tks) ==
    CASE cur.tag = "Some" -> [kind |-> "Task", failure |-> NoFailure]
      [] cur.tag = "Finished" -> [kind |-> "Finished", failure |-> NoFailure]
      [] cur.tag = "Stopped" -> [kind |-> "Finished", failure |-> NoFailure]
      [] OTHER -> [kind |-> "Failure",
                   failure |-> Failure("no task was scheduled", <<>>, NoName, NoPos, 1,
                                       persist_task_failure("no task was scheduled", NoPos),
                                       NoPayload)]

next_step(cur, tks) ==
    CASE cur.tag = "Some" -> [kind |-> "Task", failure |-> NoFailure]
      [] cur.tag = "Finished" ->
            IF any_unfinished(tks)
            THEN [kind |-> "Failure",
                  failure |-> Failure("deadlock", blocked_tasks(tks), NoName, NoPos, 1,
                                      persist_task_failure("deadlock", NoPos), NoPayload)]
            ELSE [kind |-> "Finished", failure |-> NoFailure]
      [] cur.tag = "Stopped" -> [kind |-> "Finished", failure |-> NoFailure]
      [] OTHER -> [kind |-> "Failure",
                   failure |-> Failure("no task was scheduled", <<>>, NoName, NoPos, 1,
                                       persist_task_failure("no task was scheduled", NoPos),
                                       NoPayload)]

\* after_choose whose NextStep::Finished arm ends run() without cleanup()
after_choose_no_cleanup(kind) ==
    CASE kind = "Task" -> "running"
      [] kind = "Failure" -> "panicked"
      [] OTHER -> "done"

\* after_choose whose NextStep::Finished arm lets step() return true
after_choose_continue(kind) ==
    CASE kind = "Task" -> "running"
      [] kind = "Failure" -> "panicked"
      [] OTHER -> "choose"

\* where the driver goes after phase A: resume the task, panic, or leave the
\* loop of run() (step returned false) and clean up
after_choose(kind) ==
    CASE kind = "Task" -> "running"
      [] kind = "Failure" -> "panicked"
      [] OTHER -> "cleanup"

(***************************************************************************)
(* Notify and Notified (sync/notify.rs)                                    *)
(***************************************************************************)
\* oneshot::channel(): a fresh channel whose receive end is held by task t
channel(t) == [owner |-> t, sent |-> FALSE, alive |-> TRUE]

\* Sender::send(true): delivered unless the receive end was dropped
send(chs, ch) == IF chs[ch].alive THEN [chs EXCEPT ![ch].sent = TRUE] ELSE chs

\* dropping a Notified drops its receive end, if it has one
drop_receiver(chs, rcv) == IF rcv = NoChan THEN chs ELSE [chs EXCEPT ![rcv].alive = FALSE]

\* Vec::pop(): the position of the element notify_one takes from waiters
pop_index(ws) == Len(ws)

\* latch_value that counts the notifications
latch_value_counting(st) == st + 1

\* the value notify_one stores into state when no waiter is present
latch_value(st) == 1

\* notify_one() that stores 1 into state whether or not a waiter is present
notify_one_always_latches(st, ws) ==
    IF Len(ws) > 0
    THEN [state |-> latch_value(st),
          waiters |-> [k \in 1..(Len(ws) - 1) |->
                          IF k < pop_index(ws) THEN ws[k] ELSE ws[k + 1]],
          ch |-> ws[pop_index(ws)]]
    ELSE [state |-> latch_value(st), waiters |-> ws, ch |-> NoChan]

\* notify_one(): state and waiters afterwards, and the sender that was popped
notify_one(st, ws) ==
    IF Len(ws) > 0
    THEN [state |-> st,
          waiters |-> [k \in 1..(Len(ws) - 1) |->
                          IF k < pop_index(ws) THEN ws[k] ELSE ws[k + 1]],
          ch |-> ws[pop_index(ws)]]
    ELSE [state |-> latch_value(st), waiters |-> ws, ch |-> NoChan]

\* poll_notified without the compare_exchange: it registers whatever state is
poll_notified_no_fast_path(st, ws, rcv, chs, t) ==
    LET reg == rcv = NoChan
        c == IF reg THEN Len(chs) + 1 ELSE rcv
        chs2 == IF reg THEN Append(chs, channel(t)) ELSE chs
        ws2 == IF reg THEN Append(ws, c) ELSE ws
    IN  [state |-> st, waiters |-> ws2, receiver |-> c, chans |-> chs2,
         ready |-> chs2[c].sent]

\* poll_notified whose fast path reads state and leaves the latch set
poll_notified_keeps_latch(st, ws, rcv, chs, t) ==
    IF st = 1
    THEN [state |-> st, waiters |-> ws, receiver |-> rcv, chans |-> chs, ready |-> TRUE]
    ELSE LET reg == rcv = NoChan
             c == IF reg THEN Len(chs) + 1 ELSE rcv
             chs2 == IF reg THEN Append(chs, channel(t)) ELSE chs
             ws2 == IF reg THEN Append(ws, c) ELSE ws
         IN  [state |-> st, waiters |-> ws2, receiver |-> c, chans |-> chs2,
              ready |-> chs2[c].sent]

\* poll_notified that registers the receiver before it tries the latch
poll_notified_registers_first(st, ws, rcv, chs, t) ==
    LET reg == rcv = NoChan
        c == IF reg THEN Len(chs) + 1 ELSE rcv
        chs2 == IF reg THEN Append(chs, channel(t)) ELSE chs
        ws2 == IF reg THEN Append(ws, c) ELSE ws
    IN  IF st = 1
        THEN [state |-> 0, waiters |-> ws2, receiver |-> c, chans |-> chs2, ready |-> TRUE]
        ELSE [state |-> st, waiters |-> ws2, receiver |-> c, chans |-> chs2,
              ready |-> chs2[c].sent]

\* poll_notified() of the Notified of task t whose receiver is rcv
poll_notified(st, ws, rcv, chs, t) ==
    IF st = 1
    THEN [state |-> 0, waiters |-> ws, receiver |-> rcv, chans |-> chs, ready |-> TRUE]
    ELSE LET reg == rcv = NoChan
             c == IF reg THEN Len(chs) + 1 ELSE rcv
             chs2 == IF reg THEN Append(chs, channel(t)) ELSE chs
             ws2 == IF reg THEN Append(ws, c) ELSE ws
         IN  [state |-> st, waiters |-> ws2, receiver |-> c, chans |-> chs2,
              ready |-> chs2[c].sent]

(***************************************************************************)
(* Scoped state access (execution.rs:217-246)                              *)
(***************************************************************************)
\* try_with(f) that does not try the borrow
try_with_unchecked(inst, bor) == IF inst THEN "ran" ELSE "absent"

\* try_with(f): f runs when a state is installed and try_borrow_mut succeeds
try_with(inst, bor) == IF inst THEN (IF ~bor THEN "ran" ELSE "absent") ELSE "absent"

\* with(f): try_with(f).expect(...)
with(inst, bor) == IF try_with(inst, bor) = "absent" THEN "panic" ELSE "ran"

\* the borrow flag once the closure of try_with has returned: the RefMut is dropped
release(bor) == FALSE

\* the record of a call of with or try_with
Probe(api, inst, bor) ==
    [api |-> api, installed |-> inst, borrowed |-> bor,
     outcome |-> IF api = "with" THEN with(inst, bor) ELSE try_with(inst, bor)]

\* a call of with(f) that runs f and returns
WithCall ==
    /\ with(installed, borrowed) = "ran"
    /\ probes' = probes \cup {Probe("with", installed, borrowed)}
    /\ borrowed' = release(borrowed)
    /\ UNCHANGED installed

(***************************************************************************)
(* Initial state: ExecutionState::new and Notify::new                      *)
(***************************************************************************)
InitWith(strat) ==
    /\ scenario \in Scenarios
    /\ strategy = strat
    /\ sched = <<>>
    /\ installed = FALSE
    /\ borrowed = FALSE
    /\ probes = {}
    /\ cleanups = 0
    /\ tasks = <<>>
    /\ cont = <<>>
    /\ current_task = ST_None
    /\ next_task = ST_None
    /\ has_cleaned_up = FALSE
    /\ dpc = "init"
    /\ ret = "none"
    /\ failure = NoFailure
    /\ state = 0
    /\ waiters = <<>>
    /\ chans = <<>>
    /\ log = <<>>
    /\ advanced = FALSE

\* a run under a Strategy that may pick any runnable task or stop
Init == InitWith("any")

\* a run under the mock Strategy that picks the lowest runnable id
InitLowest == InitWith("lowest")

hist_vars == <<strategy, sched>>

scope_vars == <<installed, borrowed, probes, cleanups>>

notify_vars == <<state, waiters, chans, log>>

(***************************************************************************)
(* Execution::run: spawn the closure as task 0                             *)
(***************************************************************************)
SpawnRoot ==
    /\ UNCHANGED hist_vars
    /\ dpc = "init"
    /\ tasks' = spawn_thread(tasks, "main-thread").tasks
    /\ cont' = <<new_continuation(scenario)>>
    /\ dpc' = "choose"
    /\ UNCHANGED <<scenario, current_task, next_task, has_cleaned_up, ret, failure,
                   advanced>>
    /\ UNCHANGED notify_vars
    /\ installed' = TRUE
    /\ with(TRUE, borrowed) = "ran"
    /\ probes' = probes \cup {Probe("with", TRUE, borrowed)}
    /\ borrowed' = release(borrowed)
    /\ UNCHANGED cleanups

(***************************************************************************)
(* Execution::step, phase A: schedule, advance, branch on current_task     *)
(***************************************************************************)
StepChoose ==
    /\ dpc = "choose"
    /\ \E pick \in StrategyChoices(tasks) :
          LET nt == schedule(next_task, tasks, pick)
              adv == advance_to_next_task(current_task, nt)
              ns == next_step(adv.current_task, tasks)
          IN  /\ current_task' = adv.current_task
              /\ next_task' = adv.next_task
              /\ failure' = ns.failure
              /\ dpc' = after_choose(ns.kind)
              /\ sched' = sched \o sched_events(next_task, current_task, tasks, pick, TRUE)
    /\ advanced' = TRUE
    /\ UNCHANGED <<scenario, tasks, cont, has_cleaned_up, ret, strategy>>
    /\ UNCHANGED notify_vars
    /\ WithCall
    /\ UNCHANGED cleanups

(***************************************************************************)
(* Phase B: the resumed continuation runs the closure of the current task  *)
(* up to its next suspension point.                                        *)
(***************************************************************************)
Running == dpc = "running" /\ current_task.tag = "Some" /\ Ix(current_task.tid) \in DOMAIN cont

\* the operation the continuation of task index i is about to execute
OpAt(i) ==
    IF cont[i].pc <= Len(Body(cont[i].prog))
    THEN Body(cont[i].prog)[cont[i].pc]
    ELSE [op |-> "return", prog |-> "", name |-> NoName, h |-> 0, payload |-> NoPayload]

\* the task a popped sender wakes: the holder of the live receive end
woken(chs, ch) == IF ch # NoChan /\ chs[ch].alive THEN chs[ch].owner ELSE NoTid

\* the task whose sender is at the front of the waiter queue
front_waiter(ws, chs) == IF Len(ws) > 0 THEN chs[ws[1]].owner ELSE NoTid

\* notify.notify_one()
NotifyOp ==
    /\ UNCHANGED hist_vars
    /\ Running
    /\ LET me == current_task.tid
           i == Ix(me)
           r == notify_one(state, waiters)
           w == woken(chans, r.ch)
       IN  /\ OpAt(i).op = "notify"
           /\ state' = r.state
           /\ waiters' = r.waiters
           /\ chans' = IF r.ch = NoChan THEN chans ELSE send(chans, r.ch)
           /\ tasks' = IF w = NoTid THEN tasks
                       ELSE [tasks EXCEPT ![Ix(w)] = unblock(tasks[Ix(w)])]
           /\ cont' = [cont EXCEPT ![i].pc = @ + 1]
           /\ log' = Append(log, [ev |-> "notify", task |-> me, first |-> FALSE,
                                  ready |-> FALSE, reg |-> FALSE, woke |-> w,
                                  front |-> front_waiter(waiters, chans),
                                  prestate |-> state, preq |-> Len(waiters),
                                  state |-> r.state, qlen |-> Len(r.waiters)])
    /\ UNCHANGED <<scenario, current_task, next_task, has_cleaned_up, dpc, ret,
                   failure, advanced>>
    /\ UNCHANGED scope_vars

\* notify.notified().await: one poll of the Notified; Ready drops the Notified
\* and the closure goes on, Pending blocks the task, which yields
PollOp ==
    /\ UNCHANGED hist_vars
    /\ Running
    /\ LET me == current_task.tid
           i == Ix(me)
           rcv == cont[i].receiver
           r == poll_notified(state, waiters, rcv, chans, me)
       IN  /\ OpAt(i).op = "await"
           /\ state' = r.state
           /\ waiters' = r.waiters
           /\ log' = Append(log, [ev |-> "poll", task |-> me, first |-> (rcv = NoChan),
                                  ready |-> r.ready,
                                  reg |-> (r.receiver # rcv), woke |-> NoTid,
                                  front |-> NoTid,
                                  prestate |-> state, preq |-> Len(waiters),
                                  state |-> r.state, qlen |-> Len(r.waiters)])
           /\ IF r.ready
              THEN /\ chans' = drop_receiver(r.chans, r.receiver)
                   /\ cont' = [cont EXCEPT ![i].pc = @ + 1, ![i].receiver = NoChan]
                   /\ UNCHANGED <<tasks, dpc, ret>>
              ELSE /\ chans' = r.chans
                   /\ cont' = [cont EXCEPT ![i].receiver = r.receiver]
                   /\ tasks' = [tasks EXCEPT ![i] = block(tasks[i])]
                   /\ ret' = "yielded"
                   /\ dpc' = "classify"
    /\ UNCHANGED <<scenario, current_task, next_task, has_cleaned_up, failure, advanced>>
    /\ UNCHANGED scope_vars

\* future::spawn(...): ExecutionState::spawn_thread, the id kept as the handle
SpawnOp ==
    /\ UNCHANGED hist_vars
    /\ Running
    /\ LET me == current_task.tid
           i == Ix(me)
           o == OpAt(i)
           r == spawn_thread(tasks, o.name)
       IN  /\ o.op = "spawn"
           /\ tasks' = r.tasks
           /\ cont' = Append([cont EXCEPT ![i].pc = @ + 1,
                                          ![i].handles = Append(@, r.task_id)],
                             new_continuation(o.prog))
    /\ UNCHANGED <<scenario, current_task, next_task, has_cleaned_up, dpc, ret,
                   failure, advanced>>
    /\ UNCHANGED notify_vars
    /\ WithCall
    /\ UNCHANGED cleanups

\* handle.await: goes on when the child has produced its result, blocks otherwise
JoinOp ==
    /\ UNCHANGED hist_vars
    /\ Running
    /\ LET me == current_task.tid
           i == Ix(me)
           o == OpAt(i)
       IN  /\ o.op = "join"
           /\ o.h \in DOMAIN cont[i].handles
           /\ Ix(cont[i].handles[o.h]) \in DOMAIN cont
           /\ IF cont[Ix(cont[i].handles[o.h])].done
              THEN /\ cont' = [cont EXCEPT ![i].pc = @ + 1]
                   /\ UNCHANGED <<tasks, dpc, ret>>
              ELSE /\ tasks' = [tasks EXCEPT ![i] = block(tasks[i])]
                   /\ ret' = "yielded"
                   /\ dpc' = "classify"
                   /\ UNCHANGED cont
    /\ UNCHANGED <<scenario, current_task, next_task, has_cleaned_up, failure, advanced>>
    /\ UNCHANGED notify_vars
    /\ UNCHANGED scope_vars

\* the tasks blocked on the JoinHandle of task t
joiners(t) ==
    {j \in DOMAIN cont :
        /\ OpAt(j).op = "join"
        /\ OpAt(j).h \in DOMAIN cont[j].handles
        /\ cont[j].handles[OpAt(j).h] = t
        /\ ~tasks[j].runnable
        /\ ~tasks[j].finished}

\* the closure returns: its result is published, resume() returns finished
ReturnOp ==
    /\ UNCHANGED hist_vars
    /\ Running
    /\ LET me == current_task.tid
           i == Ix(me)
       IN  /\ OpAt(i).op = "return"
           /\ cont' = [cont EXCEPT ![i].done = TRUE]
           /\ tasks' = [j \in DOMAIN tasks |->
                           IF j \in joiners(me) THEN unblock(tasks[j]) ELSE tasks[j]]
    /\ ret' = "finished"
    /\ dpc' = "classify"
    /\ UNCHANGED <<scenario, current_task, next_task, has_cleaned_up, failure, advanced>>
    /\ UNCHANGED notify_vars
    /\ UNCHANGED scope_vars

\* a primitive calls next_pos() for the running task
PosOp ==
    /\ UNCHANGED hist_vars
    /\ Running
    /\ LET i == Ix(current_task.tid)
       IN  /\ OpAt(i).op = "pos"
           /\ tasks' = [tasks EXCEPT ![i] = next_pos(@)]
           /\ cont' = [cont EXCEPT ![i].pc = @ + 1]
    /\ UNCHANGED <<scenario, current_task, next_task, has_cleaned_up, dpc, ret,
                   failure, advanced>>
    /\ UNCHANGED notify_vars
    /\ WithCall
    /\ UNCHANGED cleanups

\* with(|s| try_with(..)): the inner call finds the state borrowed and
\* returns None without running its closure
NestedTryOp ==
    /\ UNCHANGED hist_vars
    /\ Running
    /\ LET i == Ix(current_task.tid)
       IN  /\ OpAt(i).op = "nested_try"
           /\ cont' = [cont EXCEPT ![i].pc = @ + 1]
    /\ with(installed, borrowed) = "ran"
    /\ probes' = probes \cup {Probe("with", installed, borrowed),
                               Probe("try_with", installed, TRUE)}
    /\ borrowed' = release(borrowed)
    /\ UNCHANGED <<installed, cleanups>>
    /\ UNCHANGED <<scenario, tasks, current_task, next_task, has_cleaned_up, dpc, ret,
                   failure, advanced>>
    /\ UNCHANGED notify_vars

\* with(|s| with(..)): the inner call panics with the diagnostic; the panic
\* hook calls failure_info while the outer borrow is alive; unwinding then
\* releases the borrow and catch_unwind returns Err
NestedWithOp ==
    /\ UNCHANGED hist_vars
    /\ Running
    /\ OpAt(Ix(current_task.tid)).op = "nested_with"
    /\ with(installed, borrowed) = "ran"
    /\ with(installed, TRUE) = "panic"
    /\ probes' = probes \cup {Probe("with", installed, borrowed),
                               Probe("with", installed, TRUE),
                               Probe("try_with", installed, TRUE)}
    /\ borrowed' = release(borrowed)
    /\ ret' = "panic"
    /\ dpc' = "classify"
    /\ UNCHANGED <<installed, cleanups>>
    /\ UNCHANGED <<scenario, tasks, cont, current_task, next_task, has_cleaned_up,
                   failure, advanced>>
    /\ UNCHANGED notify_vars

\* the closure panics: catch_unwind returns Err
PanicOp ==
    /\ UNCHANGED hist_vars
    /\ Running
    /\ OpAt(Ix(current_task.tid)).op = "panic"
    /\ ret' = "panic"
    /\ dpc' = "classify"
    /\ UNCHANGED <<scenario, tasks, cont, current_task, next_task, has_cleaned_up,
                   failure, advanced>>
    /\ UNCHANGED notify_vars
    /\ probes' = probes \cup {Probe("try_with", installed, borrowed)}
    /\ UNCHANGED <<installed, borrowed, cleanups>>

\* maybe_yield() that asks for a yield whatever the choice
maybe_yield_always(cur, nt, tks, pick) ==
    [current_task |-> cur, next_task |-> schedule(nt, tks, pick), yield |-> TRUE,
     advanced |-> FALSE]

\* ExecutionState::maybe_yield(), called by the running task
maybe_yield(cur, nt, tks, pick) ==
    LET n == schedule(nt, tks, pick)
    IN  IF cur = n
        THEN [current_task |-> advance_to_next_task(cur, n).current_task,
              next_task |-> advance_to_next_task(cur, n).next_task,
              yield |-> FALSE, advanced |-> TRUE]
        ELSE [current_task |-> cur, next_task |-> n, yield |-> TRUE, advanced |-> FALSE]

MaybeYieldOp ==
    /\ Running
    /\ next_task = ST_None
    /\ LET i == Ix(current_task.tid)
       IN  /\ OpAt(i).op = "yield"
           /\ cont' = [cont EXCEPT ![i].pc = @ + 1]
    /\ \E pick \in StrategyChoices(tasks) :
          LET r == maybe_yield(current_task, next_task, tasks, pick)
          IN  /\ current_task' = r.current_task
              /\ next_task' = r.next_task
              /\ advanced' = (advanced \/ r.advanced)
              /\ sched' = sched \o sched_events(next_task, current_task, tasks, pick,
                                                 r.advanced)
              /\ IF r.yield
                 THEN ret' = "yielded" /\ dpc' = "classify"
                 ELSE UNCHANGED <<ret, dpc>>
    /\ UNCHANGED <<scenario, tasks, has_cleaned_up, failure, strategy>>
    /\ UNCHANGED notify_vars
    /\ WithCall
    /\ UNCHANGED cleanups

(***************************************************************************)
(* Execution::step, phase C: the match on the result of resume()           *)
(***************************************************************************)
\* ExecutionState::failure_info(): the name of the current task, if any
failure_info(cur, tks) ==
    IF cur.tag = "Some" /\ Ix(cur.tid) \in DOMAIN tks
    THEN [name |-> IF tks[Ix(cur.tid)].name = NoName
                   THEN "task-" \o ToString(cur.tid)
                   ELSE tks[Ix(cur.tid)].name,
          pos |-> curr_pos(tks, cur.tid)]
    ELSE [name |-> NoName, pos |-> NoPos]

\* e.downcast::<String>() succeeds
is_string_payload(e) == e.type = "String"

\* the Err(e) arm of step(): persist, then re-raise; the message is joined to
\* the payload when the downcast succeeds, the payload is forwarded otherwise
task_failure(cur, tks, e) ==
    LET fi == failure_info(cur, tks)
        message == persist_task_failure(fi.name, fi.pos)
    IN  Failure("panic", <<>>, fi.name, fi.pos, 1,
                IF is_string_payload(e) THEN message ELSE NoMessage, e)

StepClassify ==
    /\ UNCHANGED hist_vars
    /\ dpc = "classify"
    /\ CASE ret = "finished" ->
              /\ tasks' = [tasks EXCEPT ![Ix(current_task.tid)] = finish(@)]
              /\ dpc' = "choose"
              /\ UNCHANGED failure
         [] ret = "yielded" ->
              /\ dpc' = "choose"
              /\ UNCHANGED <<tasks, failure>>
         [] OTHER ->
              /\ failure' = task_failure(current_task, tasks,
                                         OpAt(Ix(current_task.tid)).payload)
              /\ dpc' = "panicked"
              /\ UNCHANGED tasks
    /\ ret' = "none"
    /\ probes' = probes \cup
          (CASE ret = "finished" -> {Probe("with", installed, borrowed)}
             [] ret = "yielded" -> {}
             [] OTHER -> {Probe("try_with", installed, borrowed)})
    /\ borrowed' = IF ret = "yielded" THEN borrowed ELSE release(borrowed)
    /\ (ret = "finished" => with(installed, borrowed) = "ran")
    /\ UNCHANGED <<installed, cleanups>>
    /\ UNCHANGED <<scenario, cont, current_task, next_task, has_cleaned_up, advanced>>
    /\ UNCHANGED notify_vars

(***************************************************************************)
(* ExecutionState::cleanup, after the loop of run()                        *)
(***************************************************************************)
cleanup_ok(cur, tks) ==
    /\ cur = ST_Stopped \/ cur = ST_Finished
    /\ \A i \in 1..Len(tks) : cur = ST_Stopped \/ tks[i].finished

\* the strong references to the continuation of task tid: the one of the
\* task, and the clone step() holds from phase A to the end of the resume
strong_count(d, cur, tid) ==
    1 + (IF d \in {"running", "classify"} /\ cur = ST_Some(tid) THEN 1 ELSE 0)

\* Rc::try_unwrap succeeds on every continuation
sole_owner(d, cur, tks) == \A i \in 1..Len(tks) : strong_count(d, cur, tks[i].id) = 1

Cleanup ==
    /\ UNCHANGED hist_vars
    /\ dpc = "cleanup"
    /\ IF cleanup_ok(current_task, tasks) /\ sole_owner(dpc, current_task, tasks)
       THEN /\ tasks' = <<>>
            /\ cont' = <<>>
            /\ has_cleaned_up' = TRUE
            /\ dpc' = "done"
            /\ UNCHANGED failure
       ELSE /\ failure' = Failure("assert", <<>>, NoName, NoPos, 0, NoMessage, NoPayload)
            /\ dpc' = "panicked"
            /\ UNCHANGED <<tasks, cont, has_cleaned_up>>
    /\ UNCHANGED <<scenario, current_task, next_task, ret, advanced>>
    /\ UNCHANGED notify_vars
    /\ WithCall
    /\ cleanups' = cleanups + 1

(***************************************************************************)
(* The end of run(): the set region is left and the ExecutionState dropped *)
(***************************************************************************)
\* the assertion of Drop for ExecutionState
drop_ok(cleaned, panicking) == cleaned \/ panicking

Drop ==
    /\ dpc \in {"done", "panicked"}
    /\ installed' = FALSE
    /\ dpc' = "dropped"
    /\ failure' = IF drop_ok(has_cleaned_up, dpc = "panicked") THEN failure
                  ELSE Failure("drop", <<>>, NoName, NoPos, 0, NoMessage, NoPayload)
    /\ UNCHANGED <<scenario, tasks, cont, current_task, next_task, has_cleaned_up, ret,
                   advanced, borrowed, probes, cleanups>>
    /\ UNCHANGED hist_vars
    /\ UNCHANGED notify_vars

\* the API called with no execution running: try_with returns None, with panics
ApiOutside ==
    /\ dpc = "dropped"
    /\ \E api \in {"with", "try_with"} :
          /\ Probe(api, installed, borrowed) \notin probes
          /\ Probe(api, installed, borrowed).outcome # "ran"
          /\ probes' = probes \cup {Probe(api, installed, borrowed)}
    /\ UNCHANGED <<scenario, tasks, cont, current_task, next_task, has_cleaned_up, dpc,
                   ret, failure, advanced, installed, borrowed, cleanups>>
    /\ UNCHANGED hist_vars
    /\ UNCHANGED notify_vars

Next ==
    \/ SpawnRoot
    \/ StepChoose
    \/ NotifyOp
    \/ PollOp
    \/ SpawnOp
    \/ JoinOp
    \/ ReturnOp
    \/ PanicOp
    \/ PosOp
    \/ NestedTryOp
    \/ NestedWithOp
    \/ Drop
    \/ ApiOutside
    \/ MaybeYieldOp
    \/ StepClassify
    \/ Cleanup

Spec == Init /\ [][Next]_vars

SpecLowest == InitLowest /\ [][Next]_vars

(***************************************************************************)
(* Properties                                                              *)
(***************************************************************************)
Notifications(n) == {i \in 1..n : log[i].ev = "notify"}

FirstPoll(i) == i \in 1..Len(log) /\ log[i].ev = "poll" /\ log[i].first

LatchingNotify(i) == i \in 1..Len(log) /\ log[i].ev = "notify" /\ log[i].preq = 0

Unfinished == {i \in 1..Len(tasks) : ~tasks[i].finished}

\* C1: every notify_one() that finds waiters delivers its wakeup to the waiter
\* at the front of the queue, the one that registered first among those
\* pending, so k waiters registered in the order w1..wk are woken in that order.
C1_NotifyFIFO ==
    \A i \in 1..Len(log) :
        (log[i].ev = "notify" /\ log[i].preq > 0) => log[i].woke = log[i].front

\* C2: with n waiters and n notify_one() calls (notify_test, n = 1, and
\* multiple_waiters_test, n = 2) no interleaving ends in a deadlock.
C2_NoLostWakeup ==
    (scenario = "waiters1" \/ scenario = "waiters2") => failure.kind # "deadlock"

\* C2, the case n = 1 alone, which the code satisfies
C2_OneWaiter == scenario = "waiters1" => failure.kind # "deadlock"

\* C3: after two consecutive notify_one() calls that found the queue empty,
\* state is 1 as after the first; the next notified() resolves Ready on its
\* first poll without registering, and a further notified() does not.
C3_IdempotentLatch ==
    \A i \in 1..Len(log) :
        (LatchingNotify(i) /\ LatchingNotify(i + 1)) =>
            /\ log[i].state = 1
            /\ log[i + 1].state = 1
            /\ FirstPoll(i + 2) =>
                  /\ log[i + 2].ready
                  /\ ~log[i + 2].reg
                  /\ log[i + 2].qlen = 0
            /\ (FirstPoll(i + 2) /\ FirstPoll(i + 3)) =>
                  /\ ~log[i + 3].ready
                  /\ log[i + 3].reg

C3_Witness ==
    \E i \in 1..Len(log) :
        /\ LatchingNotify(i) /\ LatchingNotify(i + 1)
        /\ FirstPoll(i + 2) /\ FirstPoll(i + 3)
        /\ log[i + 2].task # log[i + 3].task

\* C4: in two_notifies_one_received the second waiter (task 2) resolves only
\* after the third notify_one(); the execution never deadlocks, and when it
\* ends Finished there were three notify_one() calls, two completions and the
\* waiter queue is empty.
C4_SecondWaiterBlocks ==
    scenario = "two_notifies" =>
        /\ \A i \in 1..Len(log) :
              (log[i].ev = "poll" /\ log[i].task = 2 /\ log[i].ready)
                  => Cardinality(Notifications(i - 1)) = 3
        /\ failure.kind # "deadlock"
        /\ (current_task = ST_Finished /\ dpc \in {"cleanup", "done"}) =>
              /\ Cardinality(Notifications(Len(log))) = 3
              /\ Cardinality({i \in 1..Len(log) : log[i].ev = "poll" /\ log[i].ready}) = 2
              /\ waiters = <<>>

C4_Witness ==
    /\ scenario = "two_notifies"
    /\ current_task = ST_Finished
    /\ dpc = "done"
    /\ \E i \in 1..Len(log) : log[i].ev = "poll" /\ log[i].task = 2 /\ ~log[i].ready

\* C5: the first poll of a notified() that directly follows a notify_one()
\* which found the queue empty sees state = 1, sets it to 0, resolves Ready
\* and leaves the waiter queue as it was, creating no receiver.
C5_FastPath ==
    \A i \in 1..Len(log) :
        (LatchingNotify(i) /\ FirstPoll(i + 1)) =>
            /\ log[i + 1].prestate = 1
            /\ log[i + 1].state = 0
            /\ log[i + 1].ready
            /\ ~log[i + 1].reg
            /\ log[i + 1].qlen = log[i + 1].preq

C5_Witness ==
    /\ scenario = "before_wait"
    /\ Len(log) = 2
    /\ LatchingNotify(1) /\ FirstPoll(2)
    /\ cont[2].pc = 2

\* C6: a step whose schedule() finds no runnable task panics with the deadlock
\* message listing exactly the unfinished tasks when there is one, and leaves
\* the loop without failure when all are finished; no other step reports a
\* deadlock.
C6_DeadlockStep ==
    (dpc = "choose" /\ next_task = ST_None /\ \A i \in 1..Len(tasks) : ~tasks[i].runnable)
        => IF Unfinished # {}
           THEN /\ dpc' = "panicked"
                /\ failure'.kind = "deadlock"
                /\ Len(failure'.blocked) = Cardinality(Unfinished)
                /\ {<<b.name, b.id>> : b \in {failure'.blocked[k] : k \in 1..Len(failure'.blocked)}}
                     = {<<IF tasks[i].name = NoName THEN "<unknown>" ELSE tasks[i].name,
                          tasks[i].id>> : i \in Unfinished}
           ELSE /\ dpc' = "cleanup"
                /\ failure' = NoFailure

C6_Deadlock ==
    /\ [][C6_DeadlockStep]_vars
    /\ [](failure.kind = "deadlock" =>
             /\ dpc \in {"panicked", "dropped"}
             /\ current_task = ST_Finished
             /\ Unfinished # {}
             /\ \A i \in 1..Len(tasks) : ~tasks[i].runnable)

C6_Witness ==
    /\ dpc = "panicked"
    /\ failure.kind = "deadlock"
    /\ Len(failure.blocked) = 1
    /\ failure.blocked[1] = [name |-> "child", id |-> 1]
    /\ Len(tasks) = 3

\* C7: once current_task is Stopped or Finished no step changes it.
C7_Absorbing ==
    [][current_task.tag \in {"Stopped", "Finished"} => current_task' = current_task]_vars

C7_Witness == current_task = ST_Stopped /\ dpc = "done" /\ has_cleaned_up

\* C8: a finished task is not runnable, is not in the runnable set given to
\* the Strategy, and is never the task being resumed.
C8_FinishedNotRunnable ==
    /\ \A i \in 1..Len(tasks) : tasks[i].finished => ~tasks[i].runnable
    /\ \A i \in 1..Len(tasks) : tasks[i].finished => tasks[i].id \notin runnable_ids(tasks)
    /\ (dpc = "running" /\ current_task.tag = "Some" /\ Ix(current_task.tid) \in DOMAIN tasks)
          => ~tasks[Ix(current_task.tid)].finished

C8_Witness ==
    /\ dpc = "running"
    /\ \E i \in 1..Len(tasks) : tasks[i].finished
    /\ \E i \in 1..Len(tasks) : ~tasks[i].finished /\ ~tasks[i].runnable

\* C9: the task at index i of the registry has id i, so the ids are exactly
\* 0..len-1, and every spawn_thread returns the number of tasks there were.
C9_SpawnStep ==
    Len(tasks') = Len(tasks) + 1 =>
        /\ tasks'[Len(tasks')].id = Len(tasks)
        /\ dpc = "running" =>
              LET hs == cont'[Ix(current_task.tid)].handles
              IN  hs # <<>> /\ hs[Len(hs)] = Len(tasks)

C9_DenseIds ==
    /\ [](/\ \A i \in 1..Len(tasks) : tasks[i].id = i - 1
          /\ {tasks[i].id : i \in 1..Len(tasks)} = 0..(Len(tasks) - 1))
    /\ [][C9_SpawnStep]_vars

C9_Witness ==
    /\ Len(tasks) = 3
    /\ dpc = "running"
    /\ current_task = ST_Some(2)
    /\ cont[1].handles = <<1, 2>>

\* between an advance_to_next_task() and the next schedule()
Between == advanced /\ next_task = ST_None

\* C10 as stated: between advance_to_next_task() and the next schedule()
\* current_task is Some(tid) for a task tid of the registry.
C10_ExactlyOneCurrent ==
    Between => (current_task.tag = "Some" /\ Ix(current_task.tid) \in DOMAIN tasks)

\* C10 as amended: between advance_to_next_task() and the next schedule()
\* current_task is Some(tid) for one task of the registry, or it is Stopped or
\* Finished, no task is current, and the driver has left the loop of run().
C10_AtMostOneCurrent ==
    Between =>
        \/ current_task.tag = "Some" /\ Ix(current_task.tid) \in DOMAIN tasks
        \/ /\ current_task \in {ST_Stopped, ST_Finished}
           /\ dpc \in {"cleanup", "done", "panicked", "dropped"}

C10_Witness ==
    /\ Between
    /\ dpc = "running"
    /\ current_task = ST_Some(1)
    /\ Len(tasks) = 2

(***************************************************************************)
(* The scheduler and the end of a run                                      *)
(***************************************************************************)
\* the events recorded by the step being taken
NewEvents == {sched'[k] : k \in (Len(sched) + 1)..Len(sched')}

\* the calls of Must::next_task recorded so far
Calls == {k \in 1..Len(sched) : sched[k].ev = "call"}

\* the calls of advance_to_next_task recorded so far
Advances == {k \in 1..Len(sched) : sched[k].ev = "advance"}

\* C11: every call of the Strategy passes exactly the tasks that are runnable
\* at that moment, each with its instruction count, and the id of the current
\* task (absent when no task has run); the Strategy is not called when no
\* task is runnable.
C11_CallStep ==
    \A e \in NewEvents : e.ev = "call" =>
        /\ e.runnable = {<<tasks[i].id, tasks[i].instructions>> :
                            i \in {j \in 1..Len(tasks) : tasks[j].runnable}}
        /\ e.runnable # {}
        /\ e.last = (IF current_task.tag = "Some" THEN current_task.tid ELSE NoTid)
        /\ (current_task.tag # "Some" => current_task = ST_None)

C11_StrategyArguments == [][C11_CallStep]_vars

C11_Witness ==
    \E k \in Calls : /\ sched[k].runnable = {<<0, 1>>, <<1, 0>>}
                      /\ sched[k].last = 0
                      /\ \E j \in Calls : sched[j].last = NoTid

\* C12: when the Strategy answers None the execution becomes Stopped: the
\* answer is stored as Stopped and becomes the current task at the next
\* advance; the driver then leaves the loop with no failure, whatever the
\* tasks still unfinished or blocked; no task is resumed afterwards, and
\* cleanup succeeds and drops the tasks.
C12_StopStep ==
    /\ \A e \in NewEvents : (e.ev = "call" /\ e.answer = NoTid) =>
          \/ current_task' = ST_Stopped /\ dpc' = "cleanup" /\ failure' = NoFailure
          \/ next_task' = ST_Stopped /\ dpc' = "classify" /\ ret' = "yielded"
    /\ next_task = ST_Stopped =>
          \/ UNCHANGED <<current_task, next_task, tasks>> /\ dpc' = "choose"
          \/ current_task' = ST_Stopped /\ dpc' = "cleanup" /\ failure' = NoFailure
    /\ (current_task = ST_Stopped /\ dpc = "cleanup") =>
          (dpc' = "done" /\ tasks' = <<>> /\ has_cleaned_up' /\ failure' = NoFailure)

C12_StoppedRun ==
    /\ [][C12_StopStep]_vars
    /\ [](current_task = ST_Stopped =>
             /\ failure = NoFailure
             /\ dpc \in {"cleanup", "done", "dropped"}
             /\ (dpc # "cleanup" => has_cleaned_up /\ tasks = <<>>))

C12_Witness ==
    /\ current_task = ST_Stopped
    /\ dpc = "done"
    /\ tasks = <<>>
    /\ failure = NoFailure
    /\ \E c \in DOMAIN chans : ~chans[c].sent
    /\ \E k \in Calls : sched[k].answer = NoTid /\ Cardinality(sched[k].runnable) = 2

\* the payload is a string: a String or a &'static str
StringPayloads == {"String", "&str"}

\* C13: when the resume of a task ends in a panic, the failure carries the
\* name and the position (thread id, instruction count) of the task that was
\* resumed and is persisted once; the payload re-raised joins the persisted
\* message to the original payload when that payload is a string, and is the
\* original payload otherwise; the driver then stops: no task is resumed and
\* the Strategy is not consulted.
C13_PanicReraised ==
    failure.kind = "panic" =>
        /\ dpc \in {"panicked", "dropped"}
        /\ current_task.tag = "Some"
        /\ failure.name = (IF tasks[current_task.tid + 1].name = NoName
                           THEN "task-" \o ToString(current_task.tid)
                           ELSE tasks[current_task.tid + 1].name)
        /\ failure.pos = [tid |-> current_task.tid,
                          icount |-> tasks[current_task.tid + 1].instructions]
        /\ failure.persists = 1
        /\ failure.original = Body(scenario)[cont[current_task.tid + 1].pc].payload
        /\ IF failure.original.type \in StringPayloads
           THEN failure.message = [what |-> failure.name, pos |-> failure.pos]
           ELSE failure.message = NoMessage

\* the answers of the Strategy, in the order of the calls
RECURSIVE Answers(_)
Answers(n) ==
    IF n = 0 THEN <<>>
    ELSE IF sched[n].ev = "call" THEN Append(Answers(n - 1), sched[n].answer)
    ELSE Answers(n - 1)

\* the driver has left the loop of run() without a panic
LoopLeft == dpc \in {"cleanup", "done", "dropped"} /\ failure = NoFailure

\* C14: run() ends without a panic only when every spawned task has finished
\* and current_task is Finished, or when the Strategy answered None and
\* current_task is Stopped.  For a root closure that returns at once the
\* Strategy is consulted once and picks task 0, the resume finishes the
\* task, the next schedule finds no runnable task, and the loop ends with no
\* panic.
C14_NormalEnd ==
    /\ LoopLeft =>
          \/ /\ current_task = ST_Finished
             /\ dpc = "cleanup" => (tasks # <<>> /\ \A i \in 1..Len(tasks) : tasks[i].finished)
             /\ \A k \in Calls : sched[k].answer # NoTid
          \/ /\ current_task = ST_Stopped
             /\ Answers(Len(sched))[Len(Answers(Len(sched)))] = NoTid
    /\ dpc = "dropped" /\ failure = NoFailure => has_cleaned_up
    /\ scenario = "immediate" =>
          /\ failure = NoFailure
          /\ (LoopLeft /\ current_task = ST_Finished) =>
                /\ Answers(Len(sched)) = <<0>>
                /\ sched = <<[ev |-> "call", runnable |-> {<<0, 0>>}, last |-> NoTid,
                               answer |-> 0, to |-> ST_None],
                             [ev |-> "advance", runnable |-> {}, last |-> NoTid,
                               answer |-> NoTid, to |-> ST_Some(0)],
                             [ev |-> "advance", runnable |-> {}, last |-> NoTid,
                               answer |-> NoTid, to |-> ST_Finished]>>

C14_Witness ==
    /\ scenario = "immediate"
    /\ dpc = "dropped"
    /\ failure = NoFailure
    /\ current_task = ST_Finished
    /\ Answers(Len(sched)) = <<0>>

\* two consecutive calls of advance_to_next_task
ConsecutiveAdvances ==
    {p \in Advances \X Advances :
        p[1] < p[2] /\ \A k \in Advances : ~(p[1] < k /\ k < p[2])}

\* the number of calls of the Strategy between two events
CallsBetween(a, b) == Cardinality({k \in Calls : a < k /\ k < b})

\* schedule() with a choice pending: the Strategy is not called, and the
\* advance that follows takes the pending choice as it is; no task changes
C18_PendingStep ==
    (dpc = "choose" /\ next_task # ST_None) =>
        /\ \A e \in NewEvents : e.ev # "call"
        /\ \E e \in NewEvents : e.ev = "advance" /\ e.to = next_task
        /\ current_task' = next_task
        /\ tasks' = tasks

\* C18 as stated: schedule() leaves a pending choice alone, and the Strategy
\* is consulted exactly once between two consecutive calls of
\* advance_to_next_task.
C18_ExactlyOnceBetweenAdvances ==
    /\ [][C18_PendingStep]_vars
    /\ [](\A p \in ConsecutiveAdvances : CallsBetween(p[1], p[2]) = 1)

\* C18 amended: schedule() leaves a pending choice alone, and the Strategy
\* is consulted at most once between two consecutive calls of
\* advance_to_next_task: once when a task is runnable, and not at all when
\* no task is runnable, in which case the second advance makes current_task
\* Finished.
C18_AtMostOnceBetweenAdvances ==
    /\ [][C18_PendingStep]_vars
    /\ [](\A p \in ConsecutiveAdvances :
             /\ CallsBetween(p[1], p[2]) <= 1
             /\ CallsBetween(p[1], p[2]) = 0 <=> sched[p[2]].to = ST_Finished)

C18_Witness ==
    /\ dpc = "running"
    /\ \E p \in ConsecutiveAdvances :
          /\ p[2] = Len(sched)
          /\ sched[p[2] - 1].ev # "advance"
          /\ sched[p[2] - 1].last # sched[p[2] - 1].answer
          /\ sched[p[2]].to = ST_Some(sched[p[2] - 1].answer)
          /\ sched[p[2] - 1].last # NoTid

\* the running task is about to call maybe_yield()
YieldCall ==
    /\ dpc = "running"
    /\ current_task.tag = "Some"
    /\ cont[current_task.tid + 1].pc \in DOMAIN Body(cont[current_task.tid + 1].prog)
    /\ Body(cont[current_task.tid + 1].prog)[cont[current_task.tid + 1].pc].op = "yield"

\* maybe_yield() returns false (the task runs on) exactly when the Strategy
\* picked the caller; it returns true (the task yields) otherwise and leaves
\* the choice in next_task; a pending choice is made current by the next step
C19_YieldStep ==
    /\ YieldCall =>
          \E e \in NewEvents :
             /\ e.ev = "call"
             /\ e.last = current_task.tid
             /\ current_task' = current_task
             /\ IF e.answer = current_task.tid
                THEN /\ dpc' = "running"
                     /\ next_task' = ST_None
                     /\ ret' = ret
                ELSE /\ dpc' = "classify" /\ ret' = "yielded"
                     /\ next_task' = (IF e.answer = NoTid THEN ST_Stopped
                                      ELSE ST_Some(e.answer))
                     /\ \A f \in NewEvents : f.ev # "advance"
    /\ (dpc = "classify" /\ next_task # ST_None) =>
          (ret = "yielded" /\ dpc' = "choose" /\ UNCHANGED <<current_task, next_task>>)
    /\ (dpc = "choose" /\ next_task # ST_None) =>
          (current_task' = next_task /\ next_task' = ST_None)

\* C19: maybe_yield() returns false exactly when the Strategy picked the
\* calling task again, with current_task unchanged and next_task reset to
\* None; otherwise it returns true, current_task is unchanged, the choice
\* stays pending in next_task, and the next step makes it current.
C19_MaybeYield == [][C19_YieldStep]_vars

C19_Witness ==
    /\ dpc = "classify"
    /\ ret = "yielded"
    /\ current_task = ST_Some(0)
    /\ next_task = ST_Some(1)
    /\ sched[Len(sched)].ev = "call"
    /\ \E j \in Calls : j + 1 \in Advances /\ sched[j].last = 0 /\ sched[j].answer = 0

\* C20: the failure "no task was scheduled" is never raised: schedule()
\* always leaves a choice in next_task, so advance_to_next_task() is never
\* called with next_task = None and, once it has been called, current_task
\* is Some(tid), Stopped or Finished.
C20_AlwaysScheduled ==
    /\ failure.kind # "no task was scheduled"
    /\ \A k \in Advances : sched[k].to.tag \in {"Some", "Stopped", "Finished"}
    /\ Advances # {} => current_task.tag \in {"Some", "Stopped", "Finished"}
    /\ (Advances # {} /\ next_task = ST_None) => current_task = sched[Len(sched)].to

C20_Witness ==
    /\ dpc = "cleanup"
    /\ sched[Len(sched)].to = ST_Finished
    /\ sched[Len(sched) - 1].ev = "advance"
    /\ Cardinality(Advances) >= 4

\* the TaskIds made current by advance_to_next_task, in order
RECURSIVE Scheduled(_)
Scheduled(n) ==
    IF n = 0 THEN <<>>
    ELSE IF sched[n].ev = "advance" /\ sched[n].to.tag = "Some"
         THEN Append(Scheduled(n - 1), sched[n].to.tid)
         ELSE Scheduled(n - 1)

IsPrefix(s, t) == Len(s) <= Len(t) /\ \A k \in 1..Len(s) : s[k] = t[k]

\* the root has spawned a child that does nothing and has yielded, and the
\* run is over
SpawnYieldOver == scenario = "spawn_yield" /\ dpc \in {"cleanup", "panicked"}

BeforeCleanup == dpc \in {"init", "choose", "running", "classify", "cleanup"}

\* the step of cleanup(): its three assertions hold, the registry is emptied
\* and the flag set; the step of the destructor: its check holds
C15_CleanupStep ==
    /\ dpc = "cleanup" =>
          /\ current_task = ST_Stopped \/ current_task = ST_Finished
          /\ \A i \in 1..Len(tasks) : current_task = ST_Stopped \/ tasks[i].finished
          /\ \A i \in 1..Len(tasks) : current_task # ST_Some(tasks[i].id)
          /\ tasks' = <<>> /\ has_cleaned_up' /\ cleanups' = 1
          /\ dpc' = "done" /\ failure' = NoFailure
    /\ dpc = "done" => (has_cleaned_up /\ dpc' = "dropped" /\ failure' = NoFailure)
    /\ dpc = "panicked" => (dpc' = "dropped" /\ failure' = failure)
    /\ dpc # "cleanup" => cleanups' = cleanups

\* C15: in every execution that ends without a panic cleanup() runs once,
\* after the loop and before the state is dropped; it finds current_task
\* Stopped or Finished, every task finished unless Stopped, and no shared
\* continuation; it leaves the registry empty and the flag set, so that the
\* check of the destructor (cleaned up, or panicking) never fails.
C15_CleanupDiscipline ==
    /\ [][C15_CleanupStep]_vars
    /\ [](/\ failure.kind \notin {"assert", "drop"}
          /\ BeforeCleanup => (cleanups = 0 /\ ~has_cleaned_up)
          /\ dpc = "done" => (cleanups = 1 /\ has_cleaned_up /\ tasks = <<>>)
          /\ (dpc = "dropped" /\ failure = NoFailure) =>
                (cleanups = 1 /\ has_cleaned_up /\ tasks = <<>>)
          /\ (dpc = "dropped" /\ failure # NoFailure) => (cleanups = 0 /\ ~has_cleaned_up))

C15_Witness ==
    /\ dpc = "dropped"
    /\ failure = NoFailure
    /\ cleanups = 1
    /\ has_cleaned_up
    /\ tasks = <<>>
    /\ current_task = ST_Finished
    /\ Cardinality({k \in Advances : sched[k].to.tag = "Some"}) >= 3

\* the outcome the claim gives to a call, from the state it finds
Expected(api, inst, bor) ==
    IF inst /\ ~bor THEN "ran" ELSE IF api = "with" THEN "panic" ELSE "absent"

\* a closure is about to call try_with inside a with closure, or the API is
\* called when the run is over: the call changes nothing but the history
C16_AbsentStep ==
    LET nested == /\ dpc = "running" /\ current_task.tag = "Some"
                  /\ cont[current_task.tid + 1].pc
                        \in DOMAIN Body(cont[current_task.tid + 1].prog)
                  /\ Body(cont[current_task.tid + 1].prog)[cont[current_task.tid + 1].pc].op
                        = "nested_try"
    IN  /\ nested =>
              /\ [api |-> "try_with", installed |-> TRUE, borrowed |-> TRUE,
                   outcome |-> "absent"] \in probes'
              /\ UNCHANGED <<tasks, current_task, next_task, has_cleaned_up, dpc, ret,
                             failure, installed, borrowed, state, waiters, chans>>
        /\ dpc = "dropped" =>
              UNCHANGED <<tasks, cont, current_task, next_task, has_cleaned_up, dpc, ret,
                          failure, installed, borrowed, state, waiters, chans>>

\* C16: with(f) and try_with(f) run f when a state is installed and not
\* borrowed; when no state is installed, or the state is borrowed, try_with
\* returns absent and changes nothing, and with panics with its diagnostic;
\* the borrow is released when f returns, so no borrow is held while a task
\* is resumed.
C16_ScopedAccess ==
    /\ [][C16_AbsentStep]_vars
    /\ [](/\ \A p \in probes : p.outcome = Expected(p.api, p.installed, p.borrowed)
          /\ ~borrowed
          /\ installed <=> dpc \notin {"init", "dropped"}
          /\ (scenario = "reentry" /\ failure.kind = "panic") =>
                /\ failure.original = [type |-> "String", text |-> Diagnostic]
                /\ [api |-> "with", installed |-> TRUE, borrowed |-> TRUE,
                     outcome |-> "panic"] \in probes)

C16_Witness ==
    /\ dpc = "dropped"
    /\ failure.kind = "panic"
    /\ failure.original.text = Diagnostic
    /\ {[api |-> "with", installed |-> TRUE, borrowed |-> FALSE, outcome |-> "ran"],
        [api |-> "try_with", installed |-> TRUE, borrowed |-> FALSE, outcome |-> "ran"],
        [api |-> "try_with", installed |-> TRUE, borrowed |-> TRUE, outcome |-> "absent"],
        [api |-> "with", installed |-> TRUE, borrowed |-> TRUE, outcome |-> "panic"],
        [api |-> "try_with", installed |-> FALSE, borrowed |-> FALSE, outcome |-> "absent"],
        [api |-> "with", installed |-> FALSE, borrowed |-> FALSE, outcome |-> "panic"]}
          \subseteq probes

(***************************************************************************)
(* Notify: frame of notify_one, latch against queue, wake-ups              *)
(***************************************************************************)
\* the step being taken is a call of notify_one()
NotifyStep == Len(log') = Len(log) + 1 /\ log'[Len(log')].ev = "notify"

\* the queue ws without its k-th sender
RemoveAt(ws, k) == [j \in 1..(Len(ws) - 1) |-> IF j < k THEN ws[j] ELSE ws[j + 1]]

C21_NotifyStep ==
    NotifyStep =>
        IF Len(waiters) > 0
        THEN /\ state' = state
             /\ \E k \in 1..Len(waiters) :
                   /\ waiters' = RemoveAt(waiters, k)
                   /\ chans' = [chans EXCEPT ![waiters[k]].sent = TRUE]
        ELSE /\ state' = 1
             /\ waiters' = waiters
             /\ chans' = chans

\* C21: notify_one() has exactly one of two effects: with a waiter queued it
\* removes one sender from the queue, sends the wakeup on it and leaves state
\* as it is; with the queue empty it sets state to 1 and leaves the queue
\* empty.
C21_NotifyFrame == [][C21_NotifyStep]_vars

C21_Witness ==
    \E i, j \in Notifications(Len(log)) :
        /\ i < j
        /\ log[i].preq = 1 /\ log[i].qlen = 0 /\ log[i].woke # NoTid
        /\ log[i].prestate = 0 /\ log[i].state = 0
        /\ log[j].preq = 0 /\ log[j].qlen = 0
        /\ log[j].prestate = 0 /\ log[j].state = 1

\* C22: a latched notification and a registered waiter never coexist: state
\* is 1 only when the waiter queue is empty, because a poll registers only
\* after it found state different from 1, and notify_one() sets state only
\* when it found the queue empty.
C22_LatchOrWaiters ==
    /\ state = 1 => waiters = <<>>
    /\ state \in {0, 1}
    /\ \A i \in 1..Len(log) :
          /\ (log[i].ev = "poll" /\ log[i].reg) => (log[i].prestate # 1 /\ log[i].state # 1)
          /\ (log[i].ev = "notify" /\ log[i].state # log[i].prestate) => log[i].preq = 0
          /\ log[i].state = 1 => log[i].qlen = 0

C22_Witness ==
    /\ state = 1
    /\ waiters = <<>>
    /\ \E c \in DOMAIN chans : chans[c].alive /\ chans[c].sent
    /\ \E i \in 1..Len(log) : log[i].ev = "poll" /\ log[i].reg

\* the polls that resolved Ready
ReadyPolls == {i \in 1..Len(log) : log[i].ev = "poll" /\ log[i].ready}

\* the calls of notify_one() a Ready poll can be owed to: through the latch,
\* a call that set it and since which it stayed set; through the channel,
\* the call that sent on the sender of the polling task
Causes(i) ==
    IF log[i].prestate = 1
    THEN {j \in Notifications(i) :
             /\ log[j].preq = 0 /\ log[j].state = 1
             /\ \A k \in (j + 1)..(i - 1) : log[k].state = 1}
    ELSE {j \in Notifications(i) : log[j].woke = log[i].task}

\* the latest of them
Cause(i) == CHOOSE j \in Causes(i) : \A k \in Causes(i) : k <= j

\* the polls of task t that registered a sender
Registrations(t) == {i \in 1..Len(log) : log[i].ev = "poll" /\ log[i].reg /\ log[i].task = t}

\* C23: there are no spurious wake-ups: the notified() that have resolved
\* Ready are at most as many as the calls of notify_one() so far; every
\* Ready is owed to a call of notify_one() and no two to the same call; the
\* senders in the queue are those of distinct pending Notified, each
\* registered once.
C23_NoSpuriousWakeup ==
    /\ Cardinality(ReadyPolls) <= Cardinality(Notifications(Len(log)))
    /\ \A i \in ReadyPolls : Causes(i) # {}
    /\ \A i, j \in ReadyPolls : i # j => Cause(i) # Cause(j)
    /\ \A k, l \in 1..Len(waiters) :
          k # l => (waiters[k] # waiters[l]
                    /\ chans[waiters[k]].owner # chans[waiters[l]].owner)
    /\ \A k \in 1..Len(waiters) :
          /\ waiters[k] \in DOMAIN chans
          /\ chans[waiters[k]].alive
          /\ Cardinality(Registrations(chans[waiters[k]].owner)) = 1
    /\ \A i \in 1..Len(tasks) : Cardinality(Registrations(tasks[i].id)) <= 1

C23_Witness ==
    /\ Cardinality(ReadyPolls) = 2
    /\ Cardinality(Notifications(Len(log))) = 3
    /\ \E i, j \in ReadyPolls : log[i].prestate = 1 /\ log[j].prestate = 0
    /\ Len(waiters) = 0

====
